---- MODULE Spec2Model ----
(***************************************************************************)
(* A model of neural-net-rs: the dense matrix of src/matrix/mod.rs and the *)
(* feed-forward network of src/neural_net/mod.rs.                          *)
(*                                                                         *)
(* Numbers.  rows, cols and indices are u32: products are computed on four *)
(* 8-bit limbs, so that the 32-bit wrap is exact although the checker's    *)
(* integers are 32-bit signed.  A u32 of 2^31 or more is never an input;   *)
(* where one arises as a result it is marked (rep = FALSE).                *)
(* Buffers.  A Vec<f64> of up to MaxCells elements is the sequence data,    *)
(* and len its length.  A longer one is kept as len alone: vec![0; n]      *)
(* builds it all zeros, it can be read, and a call that would write to it  *)
(* is left out of the model ("unmodelled").  A call that fails because the *)
(* allocator cannot serve a buffer ends "oom".                             *)
(* An f64 is a term [n, ops]: the integer n with the chain ops of float    *)
(* operations applied to it that have no integer result (sigmoid, or an    *)
(* addition/multiplication applied to such a term).                        *)
(*                                                                         *)
(* Evaluation.  An operator that uses an argument many times binds it once *)
(* with  CHOOSE res \in {body : x \in {x0}} : TRUE , which is body with x0   *)
(* for x, its argument evaluated a single time.                            *)
(***************************************************************************)
EXTENDS Integers, Sequences, FiniteSets, TLC

VARIABLES
    overflow_checks,  \* build profile: TRUE = debug (overflow panics), FALSE = release (wraps)
    wasm32,           \* target: TRUE = wasm32 (the library), FALSE = a 64-bit host (cargo test)
    a, b,             \* two Matrix values owned by the caller (NoMatrix: not yet built)
    ret,              \* the last Matrix call: operation, arguments, outcome
    nn,               \* the NeuralNet owned by the caller (NoNet: not yet built)
    pc,               \* position of the feed_forward call
    inputs,           \* feed_forward: local `inputs`
    hidden,           \* feed_forward: local `hidden`
    wi,               \* feed_forward: number of weights taken from `weights_iter`
    out,              \* feed_forward: the returned Vec<f64>
    steps,            \* history: the Matrix calls feed_forward has completed, in order
    args              \* history: the arguments of NeuralNet::new and of feed_forward

vars == <<overflow_checks, wasm32, a, b, ret, nn, pc, inputs, hidden, wi, out, steps, args>>
build == <<overflow_checks, wasm32>>
mvars == <<a, b, ret>>
nvars == <<nn, pc, inputs, hidden, wi, out, steps, args>>

---------------------------------------------------------------------------
(* Bounds of the model *)

MaxCells == 4      \* longest data buffer kept as a sequence; loops are unrolled MaxCells + 1 times
MaxDim == 2        \* small rows/cols/index arguments are 0..MaxDim
MaxVal == 1        \* list entries are 0..MaxVal, scale factors 0..MaxVal + 1
MaxList == 1       \* lists of arbitrary entries have up to MaxList entries
MaxAbs == 4        \* a map/scale whose result has an entry above MaxAbs is not explored
MaxHidden == 2     \* longest hidden_nodes list
MaxNodes == 2      \* small layer sizes are 0..MaxNodes

---------------------------------------------------------------------------
(* u32 arithmetic *)

Base == 256                         \* a u32 is four limbs of 8 bits
U31Max == (Base * Base * Base * 64 - 1) * 2 + 1   \* 2^31 - 1, the largest integer of the checker
Big == Base * Base                  \* 2^16: Big * Big = 2^32 wraps to 0
Huge == Base * Base * Base * 64     \* 2^30: 4 * Huge = 2^32 wraps to 0
\* Vec<f64> on wasm32: a buffer holds at most isize::MAX bytes, 8 bytes an element
VecMaxElems == U31Max \div 8

Pow(k) == CASE k = 0 -> 1 [] k = 1 -> Base [] k = 2 -> Base * Base [] k = 3 -> Base * Base * Base

Limb(x, k) == (x \div Pow(k)) % Base

LimbTerm(x, y, i, k) == IF (k - i) \in 0..3 THEN Limb(x, i) * Limb(y, k - i) ELSE 0

Conv(x, y, k) == LimbTerm(x, y, 0, k) + LimbTerm(x, y, 1, k) + LimbTerm(x, y, 2, k) + LimbTerm(x, y, 3, k)

RECURSIVE Digits(_, _, _, _)
Digits(x, y, k, carry) ==
    IF k = 8 THEN <<>>
    ELSE CHOOSE res \in {<<s % Base>> \o Digits(x, y, k + 1, s \div Base) :
                            s \in {Conv(x, y, k) + carry}} : TRUE

\* x * y on u32: ovf = the product does not fit in 32 bits; val = the low 32 bits
\* (when they are below 2^31, else rep = FALSE and val is not used)
\* Operands below 2^15 have a product below 2^30, computed directly.
U32Mul(x0, y0) ==
    IF x0 < Base * 128 /\ y0 < Base * 128 THEN [ovf |-> FALSE, rep |-> TRUE, val |-> x0 * y0]
    ELSE
    CHOOSE res \in {
        [ovf |-> \E k \in 5..8 : d[k] # 0,
         rep |-> d[4] < 128,
         val |-> IF d[4] < 128 THEN d[1] + d[2] * Pow(1) + d[3] * Pow(2) + d[4] * Pow(3) ELSE 0] :
        d \in {CHOOSE ds \in {Digits(x, y, 0, 0) : x \in {x0}, y \in {y0}} : TRUE}} : TRUE

\* x + y on u32 for x, y < 2^31: never wraps; rep = FALSE when the sum is 2^31 or more
U32Add(x, y) ==
    LET r == x <= U31Max - y
    IN  [ovf |-> FALSE, rep |-> r, val |-> IF r THEN x + y ELSE 0]

---------------------------------------------------------------------------
(* f64 terms *)

R(n) == [n |-> n, ops |-> <<>>]
IsInt(x) == x.ops = <<>>
IsZero(x) == IsInt(x) /\ x.n = 0

FOp(x, o, k) == [n |-> x.n, ops |-> Append(x.ops, [op |-> o, k |-> k])]

\* x + y.  Two non-integer terms are never added: every weight is zero.
FAdd(x, y) ==
    CASE IsInt(x) /\ IsInt(y) -> R(x.n + y.n)
      [] IsZero(x) -> y
      [] IsZero(y) -> x
      [] IsInt(y) -> FOp(x, "add", y.n)
      [] IsInt(x) -> FOp(y, "add", x.n)

\* x * y.  Every term is finite, so 0 * x = 0.
FMul(x, y) ==
    CASE IsInt(x) /\ IsInt(y) -> R(x.n * y.n)
      [] IsZero(x) \/ IsZero(y) -> R(0)
      [] IsInt(y) -> FOp(x, "mul", y.n)
      [] IsInt(x) -> FOp(y, "mul", x.n)

---------------------------------------------------------------------------
(* Matrix (src/matrix/mod.rs) *)

NoMatrix == [rows |-> -1, cols |-> -1, len |-> 0, data |-> <<>>]
IsMatrix(m) == m.rows >= 0

\* the buffer of m is kept as its length alone
IsBig(m) == m.len > MaxCells

\* self.data[idx], for idx < self.data.len()
At(m, idx) == IF IsBig(m) THEN R(0) ELSE m.data[idx + 1]

\* `rows * cols` / `i * self.cols` as the build compiles it
Mul(x, y) ==
    CHOOSE res \in {
        IF p.ovf /\ overflow_checks THEN [st |-> "panic", rep |-> TRUE, val |-> 0]
        ELSE [st |-> "ok", rep |-> p.rep, val |-> p.val] :
        p \in {U32Mul(x, y)}} : TRUE

\* Matrix::new.  st: "ok", "panic" (the overflow check), "oom" (vec! cannot allocate),
\* "unmodelled" (a length of 2^31 or more on a 64-bit host)
New(rows0, cols0) ==
    CHOOSE res \in {
        CASE p.st = "panic" -> [st |-> "panic", m |-> NoMatrix]
          [] p.st = "ok" /\ wasm32 /\ (~p.rep \/ p.val > VecMaxElems) ->
                [st |-> "oom", m |-> NoMatrix]
          [] p.st = "ok" /\ ~wasm32 /\ ~p.rep -> [st |-> "unmodelled", m |-> NoMatrix]
          [] OTHER -> [st |-> "ok",
                       m |-> [rows |-> rows, cols |-> cols, len |-> p.val,
                              data |-> IF p.val > MaxCells THEN <<>>
                                       ELSE [k \in 1..p.val |-> R(0)]]] :
        rows \in {rows0}, cols \in {cols0}, p \in {Mul(rows0, cols0)}} : TRUE

\* the loop of Matrix::from: result.data[idx] = *val, idx ascending from 0
RECURSIVE FromLoop(_, _, _)
FromLoop(m0, list0, idx0) ==
    CHOOSE res \in {
        IF idx >= Len(list) THEN [st |-> "ok", m |-> m]
        ELSE IF idx >= m.len THEN [st |-> "panic", m |-> NoMatrix]
        ELSE IF IsBig(m) THEN [st |-> "unmodelled", m |-> NoMatrix]
        ELSE FromLoop([m EXCEPT !.data[idx + 1] = list[idx + 1]], list, idx + 1) :
        m \in {m0}, list \in {list0}, idx \in {idx0}} : TRUE

\* Matrix::from.  st: "ok", "err" (the Err value), "panic", "unmodelled"
From(rows0, cols0, list0) ==
    CHOOSE res \in {
        CASE p.st = "panic" -> [st |-> "panic", m |-> NoMatrix]
          [] p.st = "ok" /\ (~p.rep \/ p.val # Len(list)) -> [st |-> "err", m |-> NoMatrix]
          [] OTHER -> CHOOSE res2 \in {IF r.st = "ok" THEN FromLoop(r.m, list, 0) ELSE r :
                                        r \in {New(rows, cols)}} : TRUE :
        rows \in {rows0}, cols \in {cols0}, list \in {list0}, p \in {Mul(rows0, cols0)}} : TRUE

\* Matrix::data: self.data.clone()
data(m) == m.data

\* Matrix::calc_idx: (i * self.cols + j) as usize
calc_idx(m, i, j0) ==
    CHOOSE res \in {
        CASE p.st = "panic" -> [st |-> "panic", idx |-> 0]
          [] p.st = "ok" /\ ~p.rep -> [st |-> "unmodelled", idx |-> 0]
          [] OTHER -> LET s == U32Add(p.val, j)
                      IN  IF s.rep THEN [st |-> "ok", idx |-> s.val]
                          ELSE [st |-> "unmodelled", idx |-> 0] :
        j \in {j0}, p \in {Mul(i, m.cols)}} : TRUE

\* Matrix::get: self.data[idx] is bounds-checked against the buffer only
get(m0, row, col) ==
    CHOOSE res \in {
        CASE c.st # "ok" -> [st |-> c.st, v |-> R(0)]
          [] c.st = "ok" /\ c.idx >= m.len -> [st |-> "panic", v |-> R(0)]
          [] OTHER -> [st |-> "ok", v |-> At(m, c.idx)] :
        m \in {m0}, c \in {calc_idx(m0, row, col)}} : TRUE

\* the inner loop of the closure of Matrix::mult: for k in 0..a.cols()
RECURSIVE MultSum(_, _, _, _, _, _)
MultSum(x0, y0, row0, col0, k0, sum0) ==
    CHOOSE res \in {
        IF k >= x.cols THEN [st |-> "ok", v |-> sum]
        ELSE IF k > MaxCells THEN [st |-> "unmodelled", v |-> sum]
        ELSE CHOOSE res2 \in {
                 CASE l.st # "ok" -> [st |-> l.st, v |-> R(0)]
                   [] l.st = "ok" /\ r.st # "ok" -> [st |-> r.st, v |-> R(0)]
                   [] OTHER -> MultSum(x, y, row, col, k + 1, FAdd(sum, FMul(l.v, r.v))) :
                 l \in {get(x, row, k)}, r \in {get(y, k, col)}} : TRUE :
        x \in {x0}, y \in {y0}, row \in {row0}, col \in {col0}, k \in {k0}, sum \in {sum0}} : TRUE

Sigmoid(x) == FOp(x, "sigmoid", 0)

\* The closures the crate passes to map, as data
ScaleCb(num) == [kind |-> "scale", num |-> num, x |-> NoMatrix, y |-> NoMatrix]
TestCb == [kind |-> "val*(c*r)", num |-> 0, x |-> NoMatrix, y |-> NoMatrix]
MultCb(x, y) == [kind |-> "mult", num |-> 0, x |-> x, y |-> y]
BiasCb(bias) == [kind |-> "bias", num |-> bias, x |-> NoMatrix, y |-> NoMatrix]
SigmoidCb == [kind |-> "sigmoid", num |-> 0, x |-> NoMatrix, y |-> NoMatrix]

\* cb(val, i, j)
Call(cb, val, i, j) ==
    CASE cb.kind = "scale" -> [st |-> "ok", v |-> FMul(val, R(cb.num))]
      [] cb.kind = "val*(c*r)" -> [st |-> "ok", v |-> FMul(val, R(j * i))]
      [] cb.kind = "mult" -> MultSum(cb.x, cb.y, i, j, 0, R(0))
      [] cb.kind = "bias" -> [st |-> "ok", v |-> FAdd(val, R(cb.num))]
      [] cb.kind = "sigmoid" -> [st |-> "ok", v |-> Sigmoid(val)]

\* Matrix::map: for i in 0..rows { for j in 0..cols { data[idx] = cb(data[idx], i, j) } }
\* calls: the arguments of the calls of cb made so far, in order.
\* A loop is unrolled MaxCells + 1 times at most.
RECURSIVE MapLoop(_, _, _, _, _)
MapLoop(m0, cb0, i0, j0, calls0) ==
    CHOOSE res \in {
        IF i >= m.rows THEN [st |-> "ok", m |-> m, calls |-> calls]
        ELSE IF i > MaxCells THEN [st |-> "unmodelled", m |-> m, calls |-> calls]
        ELSE IF j >= m.cols THEN MapLoop(m, cb, i + 1, 0, calls)
        ELSE CHOOSE res2 \in {
                 CASE c.st # "ok" -> [st |-> c.st, m |-> m, calls |-> calls]
                   [] c.st = "ok" /\ c.idx >= m.len ->
                        [st |-> "panic", m |-> m, calls |-> calls]
                   [] OTHER ->
                        CHOOSE res3 \in {
                            CASE r.st # "ok" ->
                                    [st |-> r.st, m |-> m, calls |-> Append(calls, <<old, i, j>>)]
                              [] r.st = "ok" /\ IsBig(m) ->
                                    [st |-> "unmodelled", m |-> m, calls |-> calls]
                              [] OTHER ->
                                    MapLoop([m EXCEPT !.data[c.idx + 1] = r.v], cb, i, j + 1,
                                            Append(calls, <<old, i, j>>)) :
                            old \in {At(m, c.idx)},
                            r \in {Call(cb, At(m, c.idx), i, j)}} : TRUE :
                 c \in {calc_idx(m, i, j)}} : TRUE :
        m \in {m0}, cb \in {cb0}, i \in {i0}, j \in {j0}, calls \in {calls0}} : TRUE

Map(m, cb) == MapLoop(m, cb, 0, 0, <<>>)

\* Matrix::scale
Scale(m, num) == Map(m, ScaleCb(num))

\* Matrix::mult without the test of lines 155-157
Mult_Unchecked(x0, y0) ==
    CHOOSE res \in {
        CHOOSE res2 \in {
            IF result.st # "ok"
            THEN [st |-> result.st, m |-> NoMatrix, calls |-> <<>>]
            ELSE CHOOSE res3 \in {
                     [st |-> q.st, m |-> IF q.st = "ok" THEN q.m ELSE NoMatrix,
                      calls |-> q.calls] :
                     q \in {Map(result.m, MultCb(x, y))}} : TRUE :
            result \in {New(x.rows, y.cols)}} : TRUE :
        x \in {x0}, y \in {y0}} : TRUE

\* Matrix::mult
Mult(x0, y0) ==
    CHOOSE res \in {
        IF x.cols # y.rows THEN [st |-> "err", m |-> NoMatrix, calls |-> <<>>]
        ELSE CHOOSE res2 \in {
                 IF r.st # "ok" THEN [st |-> r.st, m |-> NoMatrix, calls |-> <<>>]
                 ELSE CHOOSE res3 \in {
                          IF q.st = "ok" THEN q
                          ELSE [st |-> q.st, m |-> NoMatrix, calls |-> q.calls] :
                          q \in {Map(r.m, MultCb(x, y))}} : TRUE :
                 r \in {New(x.rows, y.cols)}} : TRUE :
        x \in {x0}, y \in {y0}} : TRUE

---------------------------------------------------------------------------
(* The caller of the Matrix API *)

DimVals == (0..MaxDim) \cup {Big}
Vals == {R(n) : n \in 0..MaxVal}

RECURSIVE Lists(_)
Lists(n) ==
    IF n = 0 THEN {<<>>}
    ELSE LET shorter == Lists(n - 1)
         IN  shorter \cup {Append(l, v) : l \in {s \in shorter : Len(s) = n - 1}, v \in Vals}

\* the lists given to Matrix::from: every list over Vals of up to MaxList entries,
\* and the lists 1, 2, .., n of up to MaxCells entries
FromLists == Lists(MaxList) \cup {[k \in 1..n |-> R(k)] : n \in 0..MaxCells}

NoRet == [op |-> "none", st |-> "ok", m |-> NoMatrix, v |-> R(0), calls |-> <<>>,
          pre |-> NoMatrix, pre2 |-> NoMatrix, r |-> 0, c |-> 0, list |-> <<>>]

Slot(s) == IF s = "a" THEN a ELSE b

\* `let a = ..; let b = ..;`: each name is bound once, a before b
Unbound(s) ==
    /\ ~IsMatrix(Slot(s))
    /\ s = "b" => IsMatrix(a)

Store(s, m) ==
    /\ a' = IF s = "a" THEN m ELSE a
    /\ b' = IF s = "b" THEN m ELSE b

Small(m) == \A k \in 1..Len(m.data) : m.data[k].n <= MaxAbs

\* The caller stops at the first call that fails (`?`, unwrap, or the panic itself)
Running == ret.st = "ok"

\* let s = Matrix::new(rows, cols);
MatrixNew(s, rows, cols) ==
    /\ Running
    /\ Unbound(s)
    /\ \E q \in {New(rows, cols)} :
        /\ q.st # "unmodelled"
        /\ ret' = [NoRet EXCEPT !.op = "new", !.st = q.st, !.m = q.m, !.r = rows, !.c = cols]
        /\ Store(s, q.m)
        /\ UNCHANGED <<build, nvars>>

\* let s = Matrix::from(rows, cols, list)?;
MatrixFrom(s, rows, cols, list) ==
    /\ Running
    /\ Unbound(s)
    /\ \E q \in {From(rows, cols, list)} :
        /\ q.st # "unmodelled"
        /\ ret' = [NoRet EXCEPT !.op = "from", !.st = q.st, !.m = q.m, !.r = rows, !.c = cols,
                                !.list = list]
        /\ Store(s, q.m)
        /\ UNCHANGED <<build, nvars>>

\* s.get(row, col)
MatrixGet(s, row, col) ==
    /\ Running
    /\ IsMatrix(Slot(s))
    /\ \E q \in {get(Slot(s), row, col)} :
        /\ q.st # "unmodelled"
        /\ ret' = [NoRet EXCEPT !.op = "get", !.st = q.st, !.v = q.v, !.pre = Slot(s),
                                !.r = row, !.c = col]
        /\ UNCHANGED <<a, b, build, nvars>>

\* a.scale(num)   (`let mut a`)
MatrixScale(num) ==
    /\ Running
    /\ IsMatrix(a)
    /\ \E q \in {Scale(a, num)} :
        /\ q.st # "unmodelled"
        /\ Small(q.m)
        /\ ret' = [NoRet EXCEPT !.op = "scale", !.st = q.st, !.m = q.m, !.calls = q.calls,
                                !.pre = a, !.r = num]
        /\ a' = q.m
        /\ UNCHANGED <<b, build, nvars>>

\* a.map(|val, r, c| val * (c * r) as f64)
MatrixMap ==
    /\ Running
    /\ IsMatrix(a)
    /\ \E q \in {Map(a, TestCb)} :
        /\ q.st # "unmodelled"
        /\ Small(q.m)
        /\ ret' = [NoRet EXCEPT !.op = "map", !.st = q.st, !.m = q.m, !.calls = q.calls,
                                !.pre = a]
        /\ a' = q.m
        /\ UNCHANGED <<b, build, nvars>>

\* Matrix::mult(&a, &b)
MatrixMult ==
    /\ Running
    /\ IsMatrix(a) /\ IsMatrix(b)
    /\ \E q \in {Mult(a, b)} :
        /\ q.st # "unmodelled"
        /\ ret' = [NoRet EXCEPT !.op = "mult", !.st = q.st, !.m = q.m, !.calls = q.calls,
                                !.pre = a, !.pre2 = b]
        /\ UNCHANGED <<a, b, build, nvars>>

\* the arguments are enumerated only where the call can be made
MatrixNext ==
    \/ \E s \in {t \in {"a", "b"} : Running /\ Unbound(t)}, rows \in DimVals, cols \in DimVals :
            MatrixNew(s, rows, cols)
    \/ \E s \in {t \in {"a", "b"} : Running /\ Unbound(t)}, rows \in DimVals, cols \in DimVals,
          list \in FromLists :
            MatrixFrom(s, rows, cols, list)
    \/ \E s \in {t \in {"a", "b"} : Running /\ IsMatrix(Slot(t))}, row \in 0..MaxDim,
          col \in 0..MaxDim :
            MatrixGet(s, row, col)
    \/ \E num \in 0..(MaxVal + 1) : MatrixScale(num)
    \/ MatrixMap
    \/ MatrixMult

---------------------------------------------------------------------------
(* NeuralNet (src/neural_net/mod.rs) *)

NoNet == [hidden_nodes |-> <<>>, hidden_weights |-> <<>>, learning_rate |-> <<0, 1>>, bias |-> 0]

\* the loop of NeuralNet::new: for i in 1..hn_len  (i is 0-based, as in the source)
RECURSIVE NewLoop(_, _, _)
NewLoop(hidden_nodes, i0, weights0) ==
    CHOOSE res \in {
        IF i >= Len(hidden_nodes) THEN [st |-> "ok", ws |-> weights]
        ELSE CHOOSE res2 \in {
                 IF q.st # "ok" THEN [st |-> q.st, ws |-> <<>>]
                 ELSE NewLoop(hidden_nodes, i + 1, Append(weights, q.m)) :
                 q \in {New(hidden_nodes[i + 1], hidden_nodes[i])}} : TRUE :
        i \in {i0}, weights \in {weights0}} : TRUE

\* NeuralNet::new that forgets the hidden layers
NewWeights_NoHidden(input_nodes, hidden_nodes, output_nodes) ==
    CHOOSE res \in {
        IF only.st # "ok" THEN [st |-> only.st, ws |-> <<>>]
        ELSE [st |-> "ok", ws |-> <<only.m>>] :
        only \in {New(output_nodes, input_nodes)}} : TRUE

\* the pushes of NeuralNet::new
NewWeights(input_nodes, hidden_nodes, output_nodes) ==
    IF Len(hidden_nodes) > 0
    THEN CHOOSE res \in {
             IF first.st # "ok" THEN [st |-> first.st, ws |-> <<>>]
             ELSE CHOOSE res2 \in {
                      IF mid.st # "ok" THEN mid
                      ELSE CHOOSE res3 \in {
                               IF last.st # "ok" THEN [st |-> last.st, ws |-> <<>>]
                               ELSE [st |-> "ok", ws |-> Append(mid.ws, last.m)] :
                               last \in {New(output_nodes,
                                             hidden_nodes[Len(hidden_nodes)])}} : TRUE :
                      mid \in {NewLoop(hidden_nodes, 1, <<first.m>>)}} : TRUE :
             first \in {New(hidden_nodes[1], input_nodes)}} : TRUE
    ELSE CHOOSE res \in {
             IF only.st # "ok" THEN [st |-> only.st, ws |-> <<>>]
             ELSE [st |-> "ok", ws |-> <<only.m>>] :
             only \in {New(output_nodes, input_nodes)}} : TRUE

\* NeuralNet::new
NeuralNetNew(input_nodes, hidden_nodes, output_nodes) ==
    CHOOSE res \in {
        IF w.st # "ok" THEN [st |-> w.st, nn |-> NoNet]
        ELSE [st |-> "ok",
              nn |-> [learning_rate |-> <<1, 10>>, bias |-> 1,
                      hidden_nodes |-> hidden_nodes, hidden_weights |-> w.ws]] :
        w \in {NewWeights(input_nodes, hidden_nodes, output_nodes)}} : TRUE

---------------------------------------------------------------------------
(* The caller of the NeuralNet API; feed_forward runs one Matrix call a step *)

NodeVals == (0..MaxNodes) \cup {4, Huge}

RECURSIVE NodeLists(_)
NodeLists(n) ==
    IF n = 0 THEN {<<>>}
    ELSE LET shorter == NodeLists(n - 1)
         IN  shorter \cup {Append(l, v) : l \in {s \in shorter : Len(s) = n - 1}, v \in NodeVals}

\* the vectors given to feed_forward: 1, 2, .., n
InputLists == {[k \in 1..n |-> R(k)] : n \in 0..MaxCells}

NoArgs == [input |-> 0, h |-> <<>>, output |-> 0, data |-> <<>>, built |-> NoNet]

Step(op, arg, res) == [op |-> op, w |-> wi, arg |-> arg, res |-> res]

\* let nn = NeuralNet::new(input, h, output);
NNNew(input, h, output) ==
    /\ pc = "init"
    /\ \E q \in {NeuralNetNew(input, h, output)} :
        /\ q.st # "unmodelled"
        /\ nn' = q.nn
        /\ pc' = IF q.st = "ok" THEN "idle" ELSE q.st
        /\ args' = [NoArgs EXCEPT !.input = input, !.h = h, !.output = output, !.built = q.nn]
        /\ UNCHANGED <<build, mvars, inputs, hidden, wi, out, steps>>

\* nn.feed_forward(input_data): lines 64-65
FFBegin(input_data) ==
    /\ pc \in {"idle", "done"}
    /\ \E q \in {From(Len(input_data), 1, input_data)} :
        /\ q.st # "unmodelled"
        /\ inputs' = q.m
        /\ pc' = IF q.st = "ok" THEN "mult" ELSE q.st
        /\ hidden' = NoMatrix /\ wi' = 0 /\ out' = <<>> /\ steps' = <<>>
        /\ args' = [args EXCEPT !.data = input_data]
        /\ UNCHANGED <<build, mvars, nn>>

\* hidden = Matrix::mult(weights_iter.next().unwrap(), ..).unwrap(): lines 67 and 76
FFMult ==
    /\ pc = "mult"
    /\ \E rhs \in {IF wi = 0 THEN inputs ELSE hidden} :
       \E q \in {Mult(nn.hidden_weights[wi + 1], rhs)} :
        /\ q.st # "unmodelled"
        /\ wi' = wi + 1
        /\ IF q.st = "ok"
           THEN /\ hidden' = q.m
                /\ steps' = Append(steps, [Step("mult", rhs, q.m) EXCEPT !.w = wi + 1])
                /\ pc' = "bias"
           ELSE /\ pc' = (IF q.st = "err" THEN "panic" ELSE q.st)
                /\ UNCHANGED <<hidden, steps>>
        /\ UNCHANGED <<build, mvars, nn, inputs, out, args>>

\* hidden.map(|v, _, _| v + (self.bias as f64)): lines 68 and 77
FFBias ==
    /\ pc = "bias"
    /\ \E q \in {Map(hidden, BiasCb(nn.bias))} :
        /\ q.st # "unmodelled"
        /\ hidden' = q.m
        /\ IF q.st = "ok"
           THEN /\ steps' = Append(steps, Step("bias", hidden, q.m))
                /\ pc' = "sigmoid"
           ELSE /\ pc' = q.st
                /\ UNCHANGED steps
        /\ UNCHANGED <<build, mvars, nn, inputs, wi, out, args>>

\* hidden.map(|v, _, _| activation_func::sigmoid(v)): lines 69 and 78, then
\* the test of line 71 after the first weight and the loop test of line 75
FFSigmoid ==
    /\ pc = "sigmoid"
    /\ \E q \in {Map(hidden, SigmoidCb)} :
        /\ q.st # "unmodelled"
        /\ hidden' = q.m
        /\ IF q.st = "ok"
           THEN /\ steps' = Append(steps, Step("sigmoid", hidden, q.m))
                /\ pc' = IF (wi = 1 /\ Len(nn.hidden_nodes) = 0) \/ wi >= Len(nn.hidden_weights)
                         THEN "return" ELSE "mult"
           ELSE /\ pc' = q.st
                /\ UNCHANGED steps
        /\ UNCHANGED <<build, mvars, nn, inputs, wi, out, args>>

\* return hidden.data(): lines 72 and 81
FFReturn ==
    /\ pc = "return"
    /\ ~IsBig(hidden)
    /\ out' = data(hidden)
    /\ pc' = "done"
    /\ UNCHANGED <<build, mvars, nn, inputs, hidden, wi, steps, args>>

FFStep == FFMult \/ FFBias \/ FFSigmoid \/ FFReturn

\* the arguments are enumerated only where the call can be made
NetNext ==
    \/ \E input \in {n \in NodeVals : pc = "init"}, h \in NodeLists(MaxHidden),
          output \in NodeVals :
            NNNew(input, h, output)
    \/ \E input_data \in {l \in InputLists : pc \in {"idle", "done"}} : FFBegin(input_data)
    \/ FFMult
    \/ FFBias
    \/ FFSigmoid
    \/ FFReturn

---------------------------------------------------------------------------

Init ==
    /\ overflow_checks \in BOOLEAN
    /\ wasm32 \in BOOLEAN
    /\ a = NoMatrix /\ b = NoMatrix /\ ret = NoRet
    /\ nn = NoNet /\ pc = "init" /\ inputs = NoMatrix /\ hidden = NoMatrix
    /\ wi = 0 /\ out = <<>> /\ steps = <<>> /\ args = NoArgs

MatrixSpec == Init /\ [][MatrixNext]_vars

NetSpec == Init /\ [][NetNext]_vars

\* feed_forward is straight-line synchronous code: a call that has begun runs on
NetFairSpec == NetSpec /\ WF_vars(FFStep)

---------------------------------------------------------------------------
(* Claims about Matrix, checked under MatrixSpec *)

\* The mathematical product x * y equals n
ProductIs(x, y, n) ==
    \E p \in {U32Mul(x, y)} : ~p.ovf /\ p.rep /\ p.val = n

WellFormed(m) == IsMatrix(m) => ProductIs(m.rows, m.cols, m.len)

\* C1: every matrix the caller holds or was returned has a buffer of exactly
\* rows * cols elements (the mathematical product); a construction that cannot
\* give one fails.
C1_BufferLengthIsProduct ==
    /\ WellFormed(a) /\ WellFormed(b) /\ WellFormed(ret.m)
    /\ (ret.op \in {"new", "from"} /\ U32Mul(ret.r, ret.c).ovf) => ret.st # "ok"

\* C2: Matrix::from(rows, cols, v) with Len(v) = rows * cols succeeds, data() is v
\* and get(i, j) is v[i * cols + j]; with any other length it returns the Err value.
C2_FromRoundTrip ==
    ret.op = "from" =>
        IF ProductIs(ret.r, ret.c, Len(ret.list))
        THEN /\ ret.st = "ok"
             /\ data(ret.m) = ret.list
             /\ \A i \in 0..(ret.r - 1), j \in 0..(ret.c - 1) :
                    get(ret.m, i, j) = [st |-> "ok", v |-> ret.list[i * ret.c + j + 1]]
        ELSE ret.st = "err"

\* C3: get(row, col) with row >= rows or col >= cols fails; it never returns a value.
C3_GetOutOfRangeFails ==
    (ret.op = "get" /\ (ret.r >= ret.pre.rows \/ ret.c >= ret.pre.cols)) => ret.st = "panic"

\* the sum over k = 0..n-1 of x[i, k] * y[k, j], on the integers
RECURSIVE DotSum(_, _, _, _, _)
DotSum(x, y, i, j, n) ==
    IF n = 0 THEN 0
    ELSE DotSum(x, y, i, j, n - 1)
         + x.data[i * x.cols + n].n * y.data[(n - 1) * y.cols + j + 1].n

\* C4: for a (m x n) and b (n x p), mult(a, b) is the matrix of the sums of products
\* (all zero when n = 0), and a and b are unchanged.
C4_MultIsSumOfProducts ==
    (/\ ret.op = "mult"
     /\ WellFormed(ret.pre) /\ WellFormed(ret.pre2) /\ ~IsBig(ret.pre) /\ ~IsBig(ret.pre2)
     /\ ret.pre.cols = ret.pre2.rows
     /\ ret.st # "oom") =>
        /\ ret.st = "ok"
        /\ \A i \in 0..(ret.pre.rows - 1), j \in 0..(ret.pre2.cols - 1) :
                get(ret.m, i, j) = [st |-> "ok", v |-> R(DotSum(ret.pre, ret.pre2, i, j, ret.pre.cols))]
        /\ a = ret.pre /\ b = ret.pre2

\* C5: mult(a, b) returns the Err value exactly when a.cols # b.rows, and otherwise
\* a matrix of a.rows x b.cols.
C5_MultShape ==
    (ret.op = "mult" /\ WellFormed(ret.pre) /\ WellFormed(ret.pre2) /\ ret.st # "oom") =>
        IF ret.pre.cols # ret.pre2.rows THEN ret.st = "err"
        ELSE ret.st = "ok" /\ ret.m.rows = ret.pre.rows /\ ret.m.cols = ret.pre2.cols

\* f(val, row, col) of the closure the caller passed
Applied(op, num, call) ==
    IF op = "scale" THEN FMul(call[1], R(num)) ELSE FMul(call[1], R(call[3] * call[2]))

\* C10: map(f) calls f once per position in row-major order, with the value the
\* element held before the map and its (row, col), and stores f's result; rows,
\* cols and the buffer length are unchanged; scale(k) is map of v * k.
C10_MapRowMajor ==
    ret.op \in {"map", "scale"} =>
        /\ ret.st = "ok"
        /\ ProductIs(ret.pre.rows, ret.pre.cols, Len(ret.calls))
        /\ \A t \in 1..Len(ret.calls) :
              /\ ret.calls[t] = <<ret.pre.data[t], (t - 1) \div ret.pre.cols, (t - 1) % ret.pre.cols>>
              /\ ret.m.data[t] = Applied(ret.op, ret.r, ret.calls[t])
        /\ ret.m.rows = ret.pre.rows /\ ret.m.cols = ret.pre.cols /\ ret.m.len = ret.pre.len
        /\ Len(ret.m.data) = Len(ret.pre.data)

---------------------------------------------------------------------------
(* Claims about NeuralNet, checked under NetSpec *)

\* NeuralNet::new has returned a network
Built == pc \notin {"init", "panic", "oom"} \/ IsMatrix(inputs)

\* feed_forward has been called, and with a vector of the network's input size
Called == IsMatrix(inputs)
RightLength == Len(args.data) = args.input

\* C6: NeuralNet::new(input, h, output) holds Len(h) + 1 weight matrices; the first
\* has cols = input, the last rows = output, weight k has rows = h[k], every later
\* weight has the cols of the rows before it, and every stored entry is zero.
C6_WeightShapes ==
    Built =>
        \E ws \in {nn.hidden_weights} :
            /\ Len(ws) = Len(args.h) + 1
            /\ ws[1].cols = args.input
            /\ ws[Len(ws)].rows = args.output
            /\ \A k \in 1..Len(args.h) : ws[k].rows = args.h[k]
            /\ \A k \in 2..Len(ws) : ws[k].cols = ws[k - 1].rows
            /\ \A k \in 1..Len(ws) :
                  /\ \A e \in 1..Len(ws[k].data) : ws[k].data[e] = R(0)
                  /\ \A idx \in 0..MaxCells : idx < ws[k].len => At(ws[k], idx) = R(0)
            /\ nn.hidden_nodes = args.h /\ nn.bias = 1 /\ nn.learning_rate = <<1, 10>>

\* a network with two hidden layers of different sizes has been built
C6_Witness ==
    /\ pc = "idle" /\ Len(args.h) = 2 /\ args.h[1] # args.h[2]
    /\ args.input = 4 /\ args.output = 1
    /\ Len(nn.hidden_weights) = 3 /\ nn.hidden_weights[1].len = 4 * args.h[1]

\* C7: feed_forward on a built network, called with a vector of the network's
\* input size, does not abort and returns a vector of length output.
C7_OutputLength ==
    (Called /\ RightLength) =>
        /\ pc # "panic"
        /\ pc = "done" => Len(out) = args.output

\* C8: feed_forward called with a vector of another length than the input size
\* fails at the first multiplication: no bias or activation step has run, no
\* vector is returned, and the weights are those NeuralNet::new built.
C8_WrongLengthFailsFirst ==
    (Called /\ ~RightLength) =>
        /\ pc \in {"mult", "panic"}
        /\ pc = "mult" => wi = 0 /\ Mult(nn.hidden_weights[1], inputs).st = "err"
        /\ pc = "panic" => wi = 1
        /\ steps = <<>> /\ hidden = NoMatrix /\ out = <<>>
        /\ nn = args.built

\* a call with a vector longer than the input size has failed
C8_Witness ==
    /\ Called /\ pc = "panic" /\ wi = 1 /\ steps = <<>>
    /\ Len(args.data) = 2 /\ args.input = 1 /\ Len(args.h) = 1

\* what the step t of a call has to be, given the steps before it
StepOk(t) ==
    \E s \in {steps[t]} : \E prev \in {IF t = 1 THEN inputs ELSE steps[t - 1].res} :
        /\ s.w = ((t - 1) \div 3) + 1
        /\ s.arg = prev
        /\ CASE t % 3 = 1 ->
                  /\ s.op = "mult"
                  /\ s.res.rows = nn.hidden_weights[s.w].rows /\ s.res.cols = 1
                  /\ \A i \in 0..(s.res.rows - 1) :
                        get(s.res, i, 0) =
                            [st |-> "ok", v |-> MultSum(nn.hidden_weights[s.w], prev, i, 0, 0, R(0)).v]
             [] t % 3 = 2 ->
                  /\ s.op = "bias"
                  /\ s.res = [prev EXCEPT !.data = [k \in 1..Len(prev.data) |-> FAdd(prev.data[k], R(1))]]
             [] t % 3 = 0 ->
                  /\ s.op = "sigmoid"
                  /\ s.res = [prev EXCEPT !.data = [k \in 1..Len(prev.data) |-> Sigmoid(prev.data[k])]]

\* C9: a call with a vector of the input size runs, for each weight in stored order
\* and once each, mult, bias (+1), sigmoid; each step works on the result of the
\* step before; the call does not abort, runs Len(h) + 1 layers and returns the
\* result of the last one.
C9_LayerSteps ==
    (Called /\ RightLength) =>
        /\ pc \notin {"panic", "err"}
        /\ Len(steps) <= 3 * (Len(args.h) + 1)
        /\ \A t \in 1..Len(steps) : StepOk(t)
        /\ pc \in {"return", "done"} => Len(steps) = 3 * (Len(args.h) + 1)
        /\ pc = "done" => out = steps[Len(steps)].res.data

====
